---- MODULE Spec2Model ----
(***************************************************************************)
(* compute_vv10 of Tutorials/04_Density_Functional_Theory/4d_VV10.ipynb:   *)
(* the VV10 non-local correlation energy and its contribution to the       *)
(* exchange-correlation potential matrix, as the SCF driver calls it once  *)
(* per iteration.                                                          *)
(*                                                                         *)
(* numpy's float64 values are modelled as decimal fixed-point numbers with *)
(* FracDigits fractional digits, extended by the IEEE special values NaN,  *)
(* +Inf and -Inf: a finite value x is the record Fin(n) with n the integer *)
(* nearest to zero of x * Scale.  Every arithmetic line of the notebook is *)
(* translated operation by operation into F-operations on such values.     *)
(***************************************************************************)
EXTENDS Integers, Sequences, FiniteSets

----------------------------------------------------------------------------
(* Bounds of the model.                                                    *)

\* most blocks the grid holds (Vpot.nblocks())
MaxBlocks == 2

\* most grid points one block holds (l_w.shape[0])
MaxPoints == 2


----------------------------------------------------------------------------
(* Fixed-point float arithmetic with IEEE special values.                  *)

\* decimal digits kept after the point
FracDigits == 3

Scale == 10 ^ FracDigits

Fin(n) == [cls |-> "fin", v |-> n]

NaN == [cls |-> "nan", v |-> 0]

PInf == [cls |-> "inf", v |-> 1]

NInf == [cls |-> "inf", v |-> -1]

\* a whole number as a float
Num(n) == Fin(n * Scale)

IsFinite(a) == a.cls = "fin"

IsNaN(a) == a.cls = "nan"

IsInf(a) == a.cls = "inf"

Abs(n) == IF n < 0 THEN -n ELSE n

Sgn(n) == IF n < 0 THEN -1 ELSE 1

\* sign of a value that is not NaN (a zero counts as +0)
SignOf(a) == IF a.v < 0 THEN -1 ELSE 1

InfOf(s) == IF s < 0 THEN NInf ELSE PInf

\* (a/Scale) * (b/Scale) in units of 1/Scale, truncated toward zero; the
\* operands are split so that no intermediate product leaves 32 bits
MulFix(a, b) ==
    LET x == Abs(a)
        y == Abs(b)
        xh == x \div Scale
        xl == x % Scale
        yh == y \div Scale
        yl == y % Scale
    IN  (Sgn(a) * Sgn(b)) * (xh * yh * Scale + xh * yl + xl * yh + (xl * yl) \div Scale)

RECURSIVE DivDigits(_, _, _)
\* the first n decimal digits of r / y for 0 <= r < y, as an integer
DivDigits(r, y, n) ==
    IF n = 0 THEN 0
    ELSE LET t == r * 10
         IN  (t \div y) * (10 ^ (n - 1)) + DivDigits(t % y, y, n - 1)

\* (a/Scale) / (b/Scale) in units of 1/Scale for b # 0, truncated toward zero
DivFix(a, b) ==
    LET x == Abs(a)
        y == Abs(b)
    IN  (Sgn(a) * Sgn(b)) * ((x \div y) * Scale + DivDigits(x % y, y, FracDigits))

RECURSIVE ISqrt(_, _, _)
\* the largest r in lo..hi with r * r <= n (r = lo when there is none above)
ISqrt(n, lo, hi) ==
    IF lo >= hi THEN lo
    ELSE LET mid == (lo + hi + 1) \div 2
         IN  IF mid * mid <= n THEN ISqrt(n, mid, hi) ELSE ISqrt(n, lo, mid - 1)

\* sqrt(a/Scale) in units of 1/Scale for a >= 0
SqrtFix(a) == ISqrt(a * Scale, 0, 46340)

Pow6Fix(r) ==
    LET r2 == MulFix(r, r)
        r3 == MulFix(r2, r)
    IN  MulFix(r3, r3)

RECURSIVE IRoot6(_, _, _)
\* the least r in lo..hi with (r/Scale)^6 >= a/Scale (hi when there is none)
IRoot6(a, lo, hi) ==
    IF lo >= hi THEN hi
    ELSE LET mid == (lo + hi) \div 2
         IN  IF Pow6Fix(mid) >= a THEN IRoot6(a, lo, mid) ELSE IRoot6(a, mid + 1, hi)

\* (a/Scale)^(1/6) in units of 1/Scale for 0 <= a/Scale <= 64
Root6Fix(a) == IRoot6(a, 0, 2 * Scale)

\* a + b
FAdd(a, b) ==
    IF IsNaN(a) \/ IsNaN(b) THEN NaN
    ELSE IF IsInf(a) /\ IsInf(b) THEN (IF a.v = b.v THEN a ELSE NaN)
    ELSE IF IsInf(a) THEN a
    ELSE IF IsInf(b) THEN b
    ELSE Fin(a.v + b.v)

\* -a
FNeg(a) ==
    IF IsNaN(a) THEN NaN
    ELSE IF IsInf(a) THEN InfOf(-a.v)
    ELSE Fin(-a.v)

\* a - b
FSub(a, b) == FAdd(a, FNeg(b))

\* a * b
FMul(a, b) ==
    IF IsNaN(a) \/ IsNaN(b) THEN NaN
    ELSE IF IsInf(a) \/ IsInf(b)
         THEN (IF a.v = 0 \/ b.v = 0 THEN NaN ELSE InfOf(SignOf(a) * SignOf(b)))
    ELSE Fin(MulFix(a.v, b.v))

\* a / b: numpy arrays divide by zero to Inf (0/0 to NaN) and go on
FDiv(a, b) ==
    IF IsNaN(a) \/ IsNaN(b) THEN NaN
    ELSE IF IsInf(a) THEN (IF IsInf(b) THEN NaN ELSE InfOf(SignOf(a) * SignOf(b)))
    ELSE IF IsInf(b) THEN Fin(0)
    ELSE IF b.v = 0 THEN (IF a.v = 0 THEN NaN ELSE InfOf(SignOf(a)))
    ELSE Fin(DivFix(a.v, b.v))

\* np.sqrt(a)
FSqrt(a) ==
    IF IsNaN(a) THEN NaN
    ELSE IF IsInf(a) THEN (IF a.v > 0 THEN PInf ELSE NaN)
    ELSE IF a.v < 0 THEN NaN
    ELSE Fin(SqrtFix(a.v))

\* a ** (1.0 / 6.0)
FRoot6(a) ==
    IF IsNaN(a) THEN NaN
    ELSE IF IsInf(a) THEN (IF a.v > 0 THEN PInf ELSE NaN)
    ELSE IF a.v < 0 THEN NaN
    ELSE Fin(Root6Fix(a.v))

\* a ** 2.0
FSquare(a) == FMul(a, a)

\* a ** 4.0
FPow4(a) == FSquare(FSquare(a))

\* a ** 5.0
FPow5(a) == FMul(FPow4(a), a)

\* a > 0 (false of NaN)
FPositive(a) == ~IsNaN(a) /\ a.v > 0

RECURSIVE FSumSeq(_)
\* np.sum of a vector
FSumSeq(s) == IF s = <<>> THEN Fin(0) ELSE FAdd(FSumSeq(SubSeq(s, 1, Len(s) - 1)), s[Len(s)])

\* an array as a value: TLC evaluates the entries of a function expression
\* anew at every application unless the function has been compared
Array(f) == IF f = f THEN f ELSE f

\* a ** (3.0 / 4.0)
FPow34(a) ==
    LET q == FSqrt(FSqrt(a))
    IN  FMul(FMul(q, q), q)

----------------------------------------------------------------------------
(* The VV10 coefficients.                                                  *)

\* np.pi
np_pi == Fin(3141)

\* coef_C = 0.0093
coef_C == Fin(9)

\* coef_B = 5.9
coef_B == Fin(5900)

\* coef_beta = 1.0 / 32.0 * (3.0 / (coef_B ** 2.0)) ** (3.0 / 4.0)
coef_beta == FMul(FDiv(Num(1), Num(32)), FPow34(FDiv(Num(3), FSquare(coef_B))))

----------------------------------------------------------------------------
(* The VV10 kernel.                                                        *)

kappa_pref == FDiv(FMul(coef_B, FMul(Fin(1500), np_pi)), FRoot6(FMul(Num(9), np_pi)))

\* a faulty variant of W0: the plasma-frequency term Wp left out of the root
GradientOnlyW0(rho, gamma) == FSqrt(FMul(coef_C, FSquare(FDiv(gamma, FMul(rho, rho)))))

\* W0 of one point
kernel_W0(rho, gamma) ==
    LET Wp == FMul(FMul(FDiv(Num(4), Num(3)), np_pi), rho)
        Wg == FMul(coef_C, FSquare(FDiv(gamma, FMul(rho, rho))))
    IN  FSqrt(FAdd(Wg, Wp))

\* kappa of one point
kernel_kappa(rho) == FMul(FRoot6(rho), kappa_pref)

\* compute_vv10_kernel over the points of a block: (W0, kappa)
compute_vv10_kernel(rho, gamma) ==
    [W0 |-> Array([i \in DOMAIN rho |-> kernel_W0(rho[i], gamma[i])]),
     kappa |-> Array([i \in DOMAIN rho |-> kernel_kappa(rho[i])])]

----------------------------------------------------------------------------
\* nbf = D.shape[0]: the driver's basis set has two functions
nbf == 2

----------------------------------------------------------------------------
(* The quadrature grid, the basis set and the densities the driver passes: *)
(* what psi4's Vpot, its point evaluator and its functional hand over.     *)

\* the grid points a block can hold: coordinates and quadrature weight
GridPoints ==
    { [id |-> 1, x |-> 0, y |-> 0, z |-> 0, w |-> 3000],
      [id |-> 2, x |-> 1, y |-> 0, z |-> 0, w |-> 2000],
      [id |-> 3, x |-> 0, y |-> 1, z |-> 1, w |-> 4000] }

PointIds == {pt.id : pt \in GridPoints}

PointOf(k) == CHOOSE pt \in GridPoints : pt.id = k

\* the density matrices of the SCF iterations; under the third one the
\* density vanishes at grid points 2 and 3
Densities == 1 .. 3

\* RHO_A of density d at grid point k
RhoAt(d, k) == Num(<< <<1, 2, 1>>, <<2, 1, 2>>, <<1, 0, 0>> >>[d][k])

\* RHO_AX, RHO_AY, RHO_AZ of density d at grid point k
GradAt(d, k) ==
    << << <<0, 0, 0>>, <<1, 0, -1>>, <<2, 1, 2>> >>,
       << <<1, 1, 0>>, <<0, 0, 1>>, <<-1, 0, 1>> >>,
       << <<0, 1, 0>>, <<1, 0, 0>>, <<0, 0, 0>> >> >>[d][k]

\* GAMMA_AA: the gradient's dot product with itself
GammaAt(d, k) ==
    LET gr == GradAt(d, k)
    IN  Num(gr[1] * gr[1] + gr[2] * gr[2] + gr[3] * gr[3])

\* basis function A and its three derivatives at grid point k
Chi(A, k) == Num((A + k) % 3)

ChiX(A, k) == Num(((A * k) % 3) - 1)

ChiY(A, k) == Num((A + 2 * k) % 2)

ChiZ(A, k) == Num((A % 2) * (k % 2))

\* the semilocal functional's energy density and derivatives at one point
SemiV(rho, gamma) == FNeg(FAdd(FMul(Fin(738), rho), FMul(Fin(10), gamma)))

SemiVRho(rho, gamma) == FNeg(FAdd(Fin(984), FMul(Fin(100), rho)))

SemiVGamma(rho, gamma) == FNeg(Fin(50))

\* the strictly increasing sequences over 1..n: the local-to-global maps
RECURSIVE SortedSeqs(_)
SortedSeqs(n) ==
    IF n = 0 THEN {<<>>}
    ELSE SortedSeqs(n - 1) \cup {Append(s, n) : s \in SortedSeqs(n - 1)}

\* a block: its grid points in order and its local-to-global function map
Blocks ==
    { [pts |-> ps, lpos |-> lp] :
        ps \in {s \in SortedSeqs(Cardinality(PointIds)) : Len(s) \in 1 .. MaxPoints},
        lp \in SortedSeqs(nbf) \ {<<>>} }

PointsIn(blk) == {blk.pts[i] : i \in DOMAIN blk.pts}

\* the grids: up to MaxBlocks blocks, no grid point in two blocks
Grids ==
    UNION { {gr \in [1 .. n -> Blocks] :
                \A i, j \in 1 .. n : i # j => PointsIn(gr[i]) \cap PointsIn(gr[j]) = {}} :
            n \in 1 .. MaxBlocks }

\* the orders in which the blocks of grid gr can be enumerated
Reorderings(gr) ==
    { [i \in DOMAIN gr |-> gr[f[i]]] :
        f \in {h \in [DOMAIN gr -> DOMAIN gr] : \A i, j \in DOMAIN gr : i # j => h[i] # h[j]} }

----------------------------------------------------------------------------
(* The state: the driver's inputs, the shared point evaluator, and the     *)
(* variables of compute_vv10.                                              *)

VARIABLES
    grid,        \* Vpot: the blocks in the order get_block enumerates them
    D,           \* the density matrix the evaluator holds (0: none yet)
    target,      \* the block compute_points was last called with (0: none)
    pc,          \* "idle" (between calls), "outer", "inner", "project"
    Varr, xc_e, vv10_e,
    l_block, r_block,
    v_rho, v_gamma, l_rho, l_gamma, l_W0, l_kappa,
    phi_kernel, phi_U, phi_W,
    g, gp,       \* the pair denominators of the inner block added last
    Vtmp,        \* the projection of the outer block scattered last
    ret,         \* <<>>, or the one record the finished call returned
    prev,        \* <<>>, or the inputs and the result of the call before
    acc,         \* history: the inner blocks added to phi_* since their reset
    readAcc,     \* history: acc when the derivatives last read phi_*
    contrib      \* history: (lpos, Vtmp) of every block scattered

vars ==
    <<grid, D, target, pc, Varr, xc_e, vv10_e, l_block, r_block, v_rho, v_gamma,
      l_rho, l_gamma, l_W0, l_kappa, phi_kernel, phi_U, phi_W, g, gp, Vtmp, ret,
      prev, acc, readAcc, contrib>>

nblocks == Len(grid)

npoints(blk) == Len(blk.pts)

\* l_grid.w(), .x(), .y(), .z() as arrays
grid_w(blk) == Array([i \in 1 .. npoints(blk) |-> Num(PointOf(blk.pts[i]).w)])

grid_x(blk) == Array([i \in 1 .. npoints(blk) |-> Num(PointOf(blk.pts[i]).x)])

grid_y(blk) == Array([i \in 1 .. npoints(blk) |-> Num(PointOf(blk.pts[i]).y)])

grid_z(blk) == Array([i \in 1 .. npoints(blk) |-> Num(PointOf(blk.pts[i]).z)])

\* arr[:n]
Slice(arr, n) == Array([i \in 1 .. n |-> arr[i]])

\* np.zeros_like of a vector of n points
Zeros(n) == Array([i \in 1 .. n |-> Fin(0)])

\* points_func.point_values()[key] while the evaluator is computed for block t:
\* a buffer of MaxPoints entries of which the block fills its first npoints
point_values(t, key) ==
    Array([i \in 1 .. MaxPoints |->
        IF t \in 1 .. nblocks /\ i <= npoints(grid[t])
        THEN LET k == grid[t].pts[i]
             IN  CASE key = "RHO_A" -> RhoAt(D, k)
                   [] key = "GAMMA_AA" -> GammaAt(D, k)
                   [] key = "RHO_AX" -> Num(GradAt(D, k)[1])
                   [] key = "RHO_AY" -> Num(GradAt(D, k)[2])
                   [] key = "RHO_AZ" -> Num(GradAt(D, k)[3])
        ELSE Fin(0)])

\* points_func.basis_values()[key] while the evaluator is computed for block t:
\* MaxPoints rows of nbf columns, filled for the block's points and functions
basis_values(t, key) ==
    Array([i \in 1 .. MaxPoints |-> [a \in 1 .. nbf |->
        IF t \in 1 .. nblocks /\ i <= npoints(grid[t]) /\ a <= Len(grid[t].lpos)
        THEN LET k == grid[t].pts[i]
                 A == grid[t].lpos[a]
             IN  CASE key = "PHI" -> Chi(A, k)
                   [] key = "PHI_X" -> ChiX(A, k)
                   [] key = "PHI_Y" -> ChiY(A, k)
                   [] key = "PHI_Z" -> ChiZ(A, k)
        ELSE Fin(0)]])

\* superfunc.compute_functional(points_func.point_values(), -1)[key]
compute_functional(t, key) ==
    LET rho == point_values(t, "RHO_A")
        gamma == point_values(t, "GAMMA_AA")
    IN  Array([i \in 1 .. MaxPoints |->
            CASE key = "V" -> SemiV(rho[i], gamma[i])
              [] key = "V_RHO_A" -> SemiVRho(rho[i], gamma[i])
              [] key = "V_GAMMA_AA" -> SemiVGamma(rho[i], gamma[i])])

\* np.vdot(a, b)
vdot(a, b) == FSumSeq([i \in DOMAIN a |-> FMul(a[i], b[i])])

\* a faulty variant of the allocation: the array handed out by the call before
\* is taken up again instead of a zeroed one
StaleVarr == IF ret = <<>> THEN Array([A \in 1 .. nbf |-> [B \in 1 .. nbf |-> Fin(0)]]) ELSE ret[1].V

\* np.zeros((nbf, nbf))
FreshVarr == Array([A \in 1 .. nbf |-> [B \in 1 .. nbf |-> Fin(0)]])

NoLocals ==
    /\ v_rho' = <<>> /\ v_gamma' = <<>> /\ l_rho' = <<>> /\ l_gamma' = <<>>
    /\ l_W0' = <<>> /\ l_kappa' = <<>>
    /\ phi_kernel' = <<>> /\ phi_U' = <<>> /\ phi_W' = <<>>
    /\ g' = <<>> /\ gp' = <<>> /\ Vtmp' = <<>>
    /\ acc' = <<>> /\ readAcc' = <<>> /\ contrib' = <<>>

InitCommon ==
    /\ grid \in Grids
    /\ target = 0
    /\ pc = "idle"
    /\ Varr = <<>> /\ xc_e = Fin(0) /\ vv10_e = Fin(0)
    /\ l_block = 0 /\ r_block = 0
    /\ v_rho = <<>> /\ v_gamma = <<>> /\ l_rho = <<>> /\ l_gamma = <<>>
    /\ l_W0 = <<>> /\ l_kappa = <<>>
    /\ phi_kernel = <<>> /\ phi_U = <<>> /\ phi_W = <<>>
    /\ g = <<>> /\ gp = <<>> /\ Vtmp = <<>>
    /\ ret = <<>> /\ prev = <<>>
    /\ acc = <<>> /\ readAcc = <<>> /\ contrib = <<>>

Init == InitCommon /\ D = 0

\* lines 181-194 of a call with density d on the grid enumerated as gr
CallWith(d, gr) ==
    /\ pc = "idle"
    /\ D' = d
    /\ grid' = gr
    /\ ret' = <<>>
    /\ Varr' = FreshVarr
    /\ xc_e' = Fin(0)
    /\ vv10_e' = Fin(0)
    /\ l_block' = 1
    /\ r_block' = 0
    /\ pc' = "outer"
    /\ NoLocals
    /\ UNCHANGED target

\* ks_solver calls compute_vv10(D, Vpot) once per SCF iteration, each time
\* with the density matrix of that iteration (line 310)
Call == (\E d \in Densities : CallWith(d, grid)) /\ UNCHANGED prev

\* the inputs and the result of the call that has just returned
Remembered ==
    IF ret = <<>> THEN prev
    ELSE <<[D |-> D, grid |-> grid, e |-> ret[1].e, nl |-> ret[1].nl, V |-> ret[1].V]>>

\* the outer loop has run out of blocks (line 197)
OuterDone == l_block > nblocks

\* a faulty variant of the inner loop: range(1, Vpot.nblocks())
FirstInnerSkipsOne == 1 + 1

\* the inner loop's first block (line 228: range(Vpot.nblocks()))
FirstInner == 1

\* a faulty variant of the inner loop: range(Vpot.nblocks() - 1)
InnerDoneEarly == r_block >= nblocks

\* the inner loop has run out of blocks (line 228)
InnerDone == r_block > nblocks

\* lines 197-225: the outer block's grid data, the semilocal functional, the
\* copies of the evaluator's point values, its kernel, and fresh sums
OuterBegin ==
    /\ pc = "outer"
    /\ ~OuterDone
    /\ LET l_grid == grid[l_block]
           l_w == grid_w(l_grid)
           l_npoints == npoints(l_grid)
           t == l_block
           rho == Slice(point_values(t, "RHO_A"), l_npoints)
           gamma == Slice(point_values(t, "GAMMA_AA"), l_npoints)
           k == compute_vv10_kernel(rho, gamma)
       IN  /\ target' = t
           /\ xc_e' = FAdd(xc_e, vdot(l_w, Slice(compute_functional(t, "V"), l_npoints)))
           /\ v_rho' = Slice(compute_functional(t, "V_RHO_A"), l_npoints)
           /\ v_gamma' = Slice(compute_functional(t, "V_GAMMA_AA"), l_npoints)
           /\ l_rho' = rho
           /\ l_gamma' = gamma
           /\ l_W0' = k.W0
           /\ l_kappa' = k.kappa
           /\ phi_kernel' = Zeros(l_npoints)
           /\ phi_U' = Zeros(l_npoints)
           /\ phi_W' = Zeros(l_npoints)
    /\ acc' = <<>>
    /\ r_block' = FirstInner
    /\ pc' = "inner"
    /\ UNCHANGED <<grid, D, Varr, vv10_e, l_block, g, gp, Vtmp, ret, prev, readAcc, contrib>>

\* (l_x[:, None] - r_x) ** 2 + (l_y[:, None] - r_y) ** 2 + (l_z[:, None] - r_z) ** 2
DistanceMatrix(l_grid, r_grid) ==
    Array([i \in 1 .. npoints(l_grid) |-> [j \in 1 .. npoints(r_grid) |->
        FAdd(FAdd(FSquare(FSub(grid_x(l_grid)[i], grid_x(r_grid)[j])),
                  FSquare(FSub(grid_y(l_grid)[i], grid_y(r_grid)[j]))),
             FSquare(FSub(grid_z(l_grid)[i], grid_z(r_grid)[j])))]])

\* g = l_W0[:, None] * R2 + l_kappa[:, None]
BuildG(W0, kappa, R2) ==
    Array([i \in DOMAIN R2 |-> [j \in DOMAIN R2[i] |-> FAdd(FMul(W0[i], R2[i][j]), kappa[i])]])

\* gp = r_W0 * R2 + r_kappa
BuildGp(W0, kappa, R2) ==
    Array([i \in DOMAIN R2 |-> [j \in DOMAIN R2[i] |-> FAdd(FMul(W0[j], R2[i][j]), kappa[j])]])

\* F_kernal = -1.5 * r_w * r_rho / (g * gp * (g + gp))
BuildF(r_w, r_rho, gm, gpm) ==
    Array([i \in DOMAIN gm |-> [j \in DOMAIN gm[i] |->
        FDiv(FMul(FMul(Fin(-1500), r_w[j]), r_rho[j]),
             FMul(FMul(gm[i][j], gpm[i][j]), FAdd(gm[i][j], gpm[i][j])))]])

\* F_U = F_kernal * ((1.0 / g) + (1.0 / (g + gp)))
BuildFU(F, gm, gpm) ==
    Array([i \in DOMAIN F |-> [j \in DOMAIN F[i] |->
        FMul(F[i][j], FAdd(FDiv(Num(1), gm[i][j]),
                           FDiv(Num(1), FAdd(gm[i][j], gpm[i][j]))))]])

\* F_W = F_U * R2
BuildFW(FU, R2) ==
    Array([i \in DOMAIN FU |-> [j \in DOMAIN FU[i] |-> FMul(FU[i][j], R2[i][j])]])

\* np.sum(M, axis=1)
RowSums(M) == Array([i \in DOMAIN M |-> FSumSeq(M[i])])

\* a + b and a - b of two vectors
VecAdd(a, b) == Array([i \in DOMAIN a |-> FAdd(a[i], b[i])])

VecSub(a, b) == Array([i \in DOMAIN a |-> FSub(a[i], b[i])])

\* lines 228-262: one inner block against the outer block
InnerStep ==
    /\ pc = "inner"
    /\ ~InnerDone
    /\ LET l_grid == grid[l_block]
           r_grid == grid[r_block]
           r_w == grid_w(r_grid)
           r_npoints == npoints(r_grid)
           t == r_block
           r_rho == Slice(point_values(t, "RHO_A"), r_npoints)
           r_gamma == Slice(point_values(t, "GAMMA_AA"), r_npoints)
           k == compute_vv10_kernel(r_rho, r_gamma)
           R2 == DistanceMatrix(l_grid, r_grid)
           gm == BuildG(l_W0, l_kappa, R2)
           gpm == BuildGp(k.W0, k.kappa, R2)
           F_kernal == BuildF(r_w, r_rho, gm, gpm)
           F_U == BuildFU(F_kernal, gm, gpm)
           F_W == BuildFW(F_U, R2)
       IN  /\ target' = t
           /\ g' = gm
           /\ gp' = gpm
           /\ phi_kernel' = VecAdd(phi_kernel, RowSums(F_kernal))
           /\ phi_U' = VecSub(phi_U, RowSums(F_U))
           /\ phi_W' = VecSub(phi_W, RowSums(F_W))
    /\ acc' = Append(acc, r_block)
    /\ r_block' = r_block + 1
    /\ UNCHANGED <<grid, D, pc, Varr, xc_e, vv10_e, l_block, v_rho, v_gamma, l_rho,
                   l_gamma, l_W0, l_kappa, Vtmp, ret, prev, readAcc, contrib>>

\* kappa_dn = l_kappa / (6.0 * l_rho)
kappa_dn(kappa, rho) == FDiv(kappa, FMul(Num(6), rho))

\* w0_dgamma = coef_C * l_gamma / (l_W0 * l_rho ** 4.0)
w0_dgamma(W0, rho, gamma) == FDiv(FMul(coef_C, gamma), FMul(W0, FPow4(rho)))

\* w0_drho = 2.0 / l_W0 * (np.pi/3.0 - coef_C * np.power(l_gamma, 2.0) / (l_rho ** 5.0))
w0_drho(W0, rho, gamma) ==
    FMul(FDiv(Num(2), W0),
         FSub(FDiv(np_pi, Num(3)), FDiv(FMul(coef_C, FSquare(gamma)), FPow5(rho))))

\* a faulty variant of the energy sum: np.nansum over the finite terms only
EnergyNanSum(l_w, rho, pk) ==
    FSumSeq([i \in DOMAIN rho |->
        LET term == FMul(FMul(l_w[i], rho[i]), FAdd(coef_beta, FMul(Fin(500), pk[i])))
        IN  IF IsFinite(term) THEN term ELSE Fin(0)])

\* np.sum(l_w * l_rho * (coef_beta + 0.5 * phi_kernel))
EnergySum(l_w, rho, pk) ==
    FSumSeq([i \in DOMAIN rho |->
        FMul(FMul(l_w[i], rho[i]), FAdd(coef_beta, FMul(Fin(500), pk[i])))])

\* a faulty variant of the perturbation: v_rho halved before the addition
HalveThenPerturb(v, rho, kdn, wdr, pk, pU, pW) ==
    FAdd(FMul(v, Fin(500)),
         FAdd(FAdd(coef_beta, pk), FMul(rho, FAdd(FMul(kdn, pU), FMul(wdr, pW)))))

\* v_rho += coef_beta + phi_kernel + l_rho * (kappa_dn * phi_U + w0_drho * phi_W)
\* v_rho *= 0.5
PerturbVRho(v, rho, kdn, wdr, pk, pU, pW) ==
    FMul(FAdd(v, FAdd(FAdd(coef_beta, pk),
                      FMul(rho, FAdd(FMul(kdn, pU), FMul(wdr, pW))))),
         Fin(500))

\* v_gamma += l_rho * w0_dgamma * phi_W
PerturbVGamma(v, rho, wdg, pW) == FAdd(v, FMul(FMul(rho, wdg), pW))

\* lines 264-276: the derivatives, the block's energy, the perturbed potentials
Assemble ==
    /\ pc = "inner"
    /\ InnerDone
    /\ LET l_w == grid_w(grid[l_block])
       IN  /\ vv10_e' = FAdd(vv10_e, EnergySum(l_w, l_rho, phi_kernel))
           /\ v_rho' = [i \in DOMAIN v_rho |->
                          PerturbVRho(v_rho[i], l_rho[i],
                                      kappa_dn(l_kappa[i], l_rho[i]),
                                      w0_drho(l_W0[i], l_rho[i], l_gamma[i]),
                                      phi_kernel[i], phi_U[i], phi_W[i])]
           /\ v_gamma' = [i \in DOMAIN v_gamma |->
                          PerturbVGamma(v_gamma[i], l_rho[i],
                                        w0_dgamma(l_W0[i], l_rho[i], l_gamma[i]),
                                        phi_W[i])]
    /\ readAcc' = acc
    /\ pc' = "project"
    /\ UNCHANGED <<grid, D, target, Varr, xc_e, l_block, r_block, l_rho, l_gamma, l_W0,
                   l_kappa, phi_kernel, phi_U, phi_W, g, gp, Vtmp, ret, prev, acc,
                   contrib>>

\* a faulty variant of the projector: line 280 left out, so that the evaluator
\* still holds the block the inner loop computed last
StaleTarget == target

\* the block the evaluator is computed for when the projector reads it
\* (line 280: points_func.compute_points(l_grid))
ProjectorTarget == l_block

\* np.einsum('pb,p,p,pa->ab', left, u, v, right)
einsum(left, u, v, right, np, nf) ==
    Array([a \in 1 .. nf |-> [b \in 1 .. nf |->
        FSumSeq([p \in 1 .. np |-> FMul(FMul(FMul(left[p][b], u[p]), v[p]), right[p][a])])]])

\* M1 + M2 of two nf x nf matrices
MatAdd(M1, M2) == Array([a \in DOMAIN M1 |-> [b \in DOMAIN M1[a] |-> FAdd(M1[a][b], M2[a][b])]])

\* a faulty variant of the symmetrization: Vtmp scattered as it is
Unsymmetrized(M) == M

\* Vtmp + Vtmp.T
Symmetrize(M) == Array([a \in DOMAIN M |-> [b \in DOMAIN M |-> FAdd(M[a][b], M[b][a])]])

\* the last local index that lpos sends to A (0: none)
LastLocal(lpos, A) ==
    LET hits == {a \in DOMAIN lpos : lpos[a] = A}
    IN  IF hits = {} THEN 0 ELSE CHOOSE a \in hits : \A c \in hits : c <= a

\* a faulty variant of the scatter: V[(lpos[:, None], lpos)] = X
ScatterOverwrite(V, lpos, X) ==
    Array([A \in DOMAIN V |-> [B \in DOMAIN V |->
        LET a == LastLocal(lpos, A)
            b == LastLocal(lpos, B)
        IN  IF a # 0 /\ b # 0 THEN X[a][b] ELSE V[A][B]]])

\* V[(lpos[:, None], lpos)] += X
Scatter(V, lpos, X) ==
    Array([A \in DOMAIN V |-> [B \in DOMAIN V |->
        LET a == LastLocal(lpos, A)
            b == LastLocal(lpos, B)
        IN  IF a # 0 /\ b # 0 THEN FAdd(V[A][B], X[a][b]) ELSE V[A][B]]])

\* lines 284-300: the LDA and GGA integrals of one block, read from the
\* evaluator while it is computed for block t
Projector(t, l_w, vr, vg, np, nf) ==
    LET phi == basis_values(t, "PHI")
        phi_x == basis_values(t, "PHI_X")
        phi_y == basis_values(t, "PHI_Y")
        phi_z == basis_values(t, "PHI_Z")
        l_rho_x == Slice(point_values(t, "RHO_AX"), np)
        l_rho_y == Slice(point_values(t, "RHO_AY"), np)
        l_rho_z == Slice(point_values(t, "RHO_AZ"), np)
        tmp_grid == Array([p \in 1 .. np |-> FMul(FMul(Num(2), l_w[p]), vg[p])])
    IN  MatAdd(MatAdd(MatAdd(einsum(phi, vr, l_w, phi, np, nf),
                             einsum(phi, tmp_grid, l_rho_x, phi_x, np, nf)),
                      einsum(phi, tmp_grid, l_rho_y, phi_y, np, nf)),
               einsum(phi, tmp_grid, l_rho_z, phi_z, np, nf))

\* lines 278-303: back to the outer block, project, symmetrize and scatter
Project ==
    /\ pc = "project"
    /\ LET l_grid == grid[l_block]
           lpos == l_grid.lpos
           t == ProjectorTarget
           X == Projector(t, grid_w(l_grid), v_rho, v_gamma, npoints(l_grid), Len(lpos))
       IN  /\ target' = t
           /\ Vtmp' = X
           /\ Varr' = Scatter(Varr, lpos, Symmetrize(X))
           /\ contrib' = Append(contrib, [lpos |-> lpos, V |-> X])
    /\ l_block' = l_block + 1
    /\ pc' = "outer"
    /\ UNCHANGED <<grid, D, xc_e, vv10_e, r_block, v_rho, v_gamma, l_rho, l_gamma, l_W0,
                   l_kappa, phi_kernel, phi_U, phi_W, g, gp, ret, prev, acc, readAcc>>

\* a faulty variant of the return: the non-local energy added a second time
AddedTwice == FAdd(FAdd(xc_e, vv10_e), vv10_e)

\* xc_e += vv10_e (line 307)
ReturnedEnergy == FAdd(xc_e, vv10_e)

\* lines 305-308: the non-local energy is printed, added, and the pair returned
Return ==
    /\ pc = "outer"
    /\ OuterDone
    /\ ret' = <<[e |-> ReturnedEnergy, V |-> Varr, nl |-> vv10_e, xc |-> xc_e,
                 blocks |-> l_block - 1]>>
    /\ pc' = "idle"
    /\ Varr' = <<>>
    /\ xc_e' = Fin(0)
    /\ vv10_e' = Fin(0)
    /\ l_block' = 0
    /\ r_block' = 0
    /\ NoLocals
    /\ UNCHANGED <<grid, D, target, prev>>

Next == Call \/ OuterBegin \/ InnerStep \/ Assemble \/ Project \/ Return

Spec == Init /\ [][Next]_vars

----------------------------------------------------------------------------
(* The SCF iterations, the result of the iteration before kept as history. *)

CallSCF == (\E d \in Densities : CallWith(d, grid)) /\ prev' = Remembered

NextSCF == CallSCF \/ OuterBegin \/ InnerStep \/ Assemble \/ Project \/ Return

SpecSCF == Init /\ [][NextSCF]_vars

----------------------------------------------------------------------------
(* One density, the call made twice: on the blocks as Vpot enumerates      *)
(* them, and then on the same blocks enumerated in any order.              *)

\* the blocks in the order of their first grid points
Ascending(gr) == \A i, j \in DOMAIN gr : i < j => gr[i].pts[1] < gr[j].pts[1]

InitReorder == InitCommon /\ D \in Densities /\ Ascending(grid)

CallFirst == ret = <<>> /\ prev = <<>> /\ CallWith(D, grid) /\ UNCHANGED prev

CallReordered ==
    /\ ret # <<>>
    /\ prev = <<>>
    /\ \E gr \in Reorderings(grid) : CallWith(D, gr)
    /\ prev' = Remembered

NextReorder ==
    CallFirst \/ CallReordered \/ OuterBegin \/ InnerStep \/ Assemble \/ Project \/ Return

SpecReorder == InitReorder /\ [][NextReorder]_vars

----------------------------------------------------------------------------
(* Reference quantities: what the text of the algorithm prescribes, worked *)
(* out from the grid and the density alone.                                *)

Upto(n) == [i \in 1 .. n |-> i]

RefRho(b) == Array([i \in 1 .. npoints(grid[b]) |-> RhoAt(D, grid[b].pts[i])])

RefGamma(b) == Array([i \in 1 .. npoints(grid[b]) |-> GammaAt(D, grid[b].pts[i])])

RefKernel(b) == compute_vv10_kernel(RefRho(b), RefGamma(b))

\* the density is positive at every point of every block
ValidDensity ==
    \A b \in 1 .. nblocks : \A i \in 1 .. npoints(grid[b]) : FPositive(RefRho(b)[i])

\* the points of block b at which the density is zero
ZeroPoints(b) == {i \in 1 .. npoints(grid[b]) : RefRho(b)[i] = Fin(0)}

\* the three row sums of inner block r against outer block l
RefPair(l, r) ==
    LET R2 == DistanceMatrix(grid[l], grid[r])
        kl == RefKernel(l)
        kr == RefKernel(r)
        gm == BuildG(kl.W0, kl.kappa, R2)
        gpm == BuildGp(kr.W0, kr.kappa, R2)
        F == BuildF(grid_w(grid[r]), RefRho(r), gm, gpm)
        FU == BuildFU(F, gm, gpm)
    IN  [k |-> RowSums(F), U |-> RowSums(FU), W |-> RowSums(BuildFW(FU, R2))]

\* the sums over the inner blocks 1..n against outer block l
RECURSIVE RefPhi(_, _)
RefPhi(l, n) ==
    IF n = 0
    THEN [k |-> Zeros(npoints(grid[l])), U |-> Zeros(npoints(grid[l])),
          W |-> Zeros(npoints(grid[l]))]
    ELSE LET p == RefPhi(l, n - 1)
             q == RefPair(l, n)
         IN  [k |-> VecAdd(p.k, q.k), U |-> VecSub(p.U, q.U), W |-> VecSub(p.W, q.W)]

\* sum_p weight[p] * rho[p] * (beta + 0.5 * phi_kernel[p]) of block l
RefBlockNL(l) ==
    LET w == grid_w(grid[l])
        rho == RefRho(l)
        phi == RefPhi(l, nblocks).k
    IN  FSumSeq([i \in 1 .. npoints(grid[l]) |->
            FMul(FMul(w[i], rho[i]), FAdd(coef_beta, FMul(Fin(500), phi[i])))])

\* the weight-weighted semilocal energy density of block l
RefBlockXC(l) ==
    LET w == grid_w(grid[l])
        rho == RefRho(l)
        gamma == RefGamma(l)
    IN  FSumSeq([i \in 1 .. npoints(grid[l]) |-> FMul(w[i], SemiV(rho[i], gamma[i]))])

RECURSIVE RefNL(_)
RefNL(n) == IF n = 0 THEN Fin(0) ELSE FAdd(RefNL(n - 1), RefBlockNL(n))

RECURSIVE RefXC(_)
RefXC(n) == IF n = 0 THEN Fin(0) ELSE FAdd(RefXC(n - 1), RefBlockXC(n))

\* what the first n scattered blocks add up to at the global pair (A, B)
RECURSIVE SumContrib(_, _, _)
SumContrib(n, A, B) ==
    IF n = 0 THEN Fin(0)
    ELSE LET c == contrib[n]
             hits == {ab \in (DOMAIN c.lpos) \X (DOMAIN c.lpos) :
                         c.lpos[ab[1]] = A /\ c.lpos[ab[2]] = B}
             pairs == Upto(Len(c.lpos) * Len(c.lpos))
             at(m) == <<((m - 1) \div Len(c.lpos)) + 1, ((m - 1) % Len(c.lpos)) + 1>>
         IN  FAdd(SumContrib(n - 1, A, B),
                  FSumSeq([m \in DOMAIN pairs |->
                      IF at(m) \in hits
                      THEN FAdd(c.V[at(m)[1]][at(m)[2]], c.V[at(m)[2]][at(m)[1]])
                      ELSE Fin(0)]))

IsSymmetric(M) == \A A, B \in 1 .. nbf : M[A][B] = M[B][A]

AllFinite(M) == \A A, B \in 1 .. nbf : IsFinite(M[A][B])

----------------------------------------------------------------------------
(* The properties.                                                         *)

\* C1: the matrix is symmetric after any number of scattered blocks and when
\* it is returned, whatever the blocks' local-to-global maps: its entries at
\* (a, b) and (b, a) are the same value, a finite number wherever the density
\* is positive on the whole grid.
C1_Symmetric ==
    /\ Varr # <<>> => IsSymmetric(Varr) /\ (ValidDensity => AllFinite(Varr))
    /\ ret # <<>> => IsSymmetric(ret[1].V) /\ (ValidDensity => AllFinite(ret[1].V))

\* a block of two functions whose projection is not symmetric has been scattered
C1_Witness ==
    /\ pc = "outer" /\ l_block > 1
    /\ Len(Vtmp) = 2
    /\ IsFinite(Vtmp[1][2]) /\ IsFinite(Vtmp[2][1])
    /\ Vtmp[1][2] # Vtmp[2][1]
    /\ Varr[1][2] # Fin(0)

\* C2: the scatter accumulates: after any number of outer blocks, and so after
\* all of them, every entry Varr[A][B] is the sum over the scattered blocks
\* and their local pairs (a, b) that lpos sends to (A, B) of
\* (Vtmp + Vtmp.T)[a][b].
C2_Accumulates ==
    Varr # <<>> => \A A, B \in 1 .. nbf : Varr[A][B] = SumContrib(Len(contrib), A, B)

\* two blocks have been scattered onto a common pair, each with a contribution
C2_Witness ==
    /\ pc = "outer" /\ OuterDone
    /\ Len(contrib) = 2
    /\ \E A, B \in 1 .. nbf :
          /\ ~(SumContrib(1, A, B) = Fin(0))
          /\ IsFinite(Varr[A][B])
          /\ ~(Varr[A][B] = SumContrib(1, A, B))
          /\ \A n \in 1 .. 2 : LastLocal(contrib[n].lpos, A) # 0 /\ LastLocal(contrib[n].lpos, B) # 0

\* C3: the non-local energy of a call does not depend on the order in which
\* the blocks are enumerated: the call on a reordered grid accumulates the
\* same vv10_e as the call before it on the same density.
C3_OrderInvariant ==
    ret # <<>> /\ prev # <<>> => ret[1].nl = prev[1].nl

\* the two calls enumerated different blocks first and got a finite energy
C3_Witness ==
    /\ ret # <<>> /\ prev # <<>>
    /\ nblocks >= 2
    /\ prev[1].grid[1] # grid[1]
    /\ IsFinite(ret[1].nl)
    /\ ~(RefPair(1, 1).k = RefPair(2, 2).k)

\* C4: the returned energy is the semilocal sum plus the non-local sum, each
\* over every outer block once; the non-local sum is added once, after the
\* last block (between blocks the semilocal sum holds no non-local part).
C4_Energy ==
    /\ ret # <<>> =>
          /\ ret[1].e = FAdd(RefXC(nblocks), RefNL(nblocks))
          /\ ret[1].blocks = nblocks
    /\ pc = "outer" => xc_e = RefXC(l_block - 1) /\ vv10_e = RefNL(l_block - 1)

\* a call over two blocks returned a finite energy with both parts nonzero
C4_Witness ==
    /\ ret # <<>>
    /\ ret[1].blocks = 2
    /\ IsFinite(ret[1].e)
    /\ ~(ret[1].nl = Fin(0))
    /\ ~(ret[1].xc = Fin(0))
    /\ ~(ret[1].e = ret[1].xc)

\* C5: wherever the density is positive (the gradient's square is never
\* negative) the kernel's W0 and kappa are positive, and so for every pair of
\* an outer and an inner point of positive density, the self-pair with
\* R2 = 0 included, g and g' are positive and none of the denominators
\* g * g' * (g + g'), g and g + g' is zero.
C5_Positive ==
    /\ pc \in {"inner", "project"} =>
          \A i \in DOMAIN l_rho :
              FPositive(l_rho[i]) /\ ~(FPositive(FNeg(l_gamma[i]))) =>
                  /\ IsFinite(l_W0[i]) /\ FPositive(l_W0[i])
                  /\ IsFinite(l_kappa[i]) /\ FPositive(l_kappa[i])
    /\ (pc = "inner" /\ r_block > FirstInner) \/ pc = "project" =>
          LET r_rho == RefRho(r_block - 1)
          IN  \A i \in DOMAIN g : \A j \in DOMAIN g[i] :
                  FPositive(l_rho[i]) /\ FPositive(r_rho[j]) =>
                      /\ IsFinite(g[i][j]) /\ FPositive(g[i][j])
                      /\ IsFinite(gp[i][j]) /\ FPositive(gp[i][j])
                      /\ FPositive(FAdd(g[i][j], gp[i][j]))
                      /\ FPositive(FMul(FMul(g[i][j], gp[i][j]), FAdd(g[i][j], gp[i][j])))

\* the inner block added last is the outer block itself, of positive density
\* and without gradient at its first point, whose self-pair has g = kappa
C5_Witness ==
    /\ pc = "inner"
    /\ r_block - 1 = l_block
    /\ FPositive(l_rho[1])
    /\ l_gamma[1] = Fin(0)
    /\ g[1][1] = l_kappa[1]
    /\ gp[1][1] = l_kappa[1]

\* C6: no recovery from a zero density: the point stays in the arrays, the
\* kernel's W0 for it is not a finite number, the call runs through every
\* block and returns, the returned energy is not a finite number, and neither
\* is any entry of the returned matrix that the block of the point scatters to.
C6_NoRecovery ==
    /\ pc \in {"inner", "project"} =>
          /\ Len(l_rho) = npoints(grid[l_block])
          /\ \A i \in DOMAIN l_rho : l_rho[i] = Fin(0) => ~IsFinite(l_W0[i])
    /\ ret # <<>> /\ ~ValidDensity =>
          /\ ret[1].blocks = nblocks
          /\ ~IsFinite(ret[1].e)
          /\ \A b \in 1 .. nblocks :
                ZeroPoints(b) # {} =>
                    \A a, c \in DOMAIN grid[b].lpos :
                        ~IsFinite(ret[1].V[grid[b].lpos[a]][grid[b].lpos[c]])

\* a call over two blocks, the density zero in one of them only, has returned
C6_Witness ==
    /\ ret # <<>>
    /\ nblocks = 2
    /\ ZeroPoints(1) = {}
    /\ ZeroPoints(2) # {}
    /\ IsNaN(ret[1].e)
    /\ IsFinite(ret[1].xc)

\* C7: every call starts from a zero matrix and two zero energy sums, and a
\* call with the density matrix and the grid of the call before it returns
\* the same energy and the same matrix.
C7_Fresh ==
    /\ pc = "outer" /\ l_block = 1 =>
          /\ Varr = [A \in 1 .. nbf |-> [B \in 1 .. nbf |-> Fin(0)]]
          /\ xc_e = Fin(0)
          /\ vv10_e = Fin(0)
    /\ ret # <<>> /\ prev # <<>> /\ prev[1].D = D /\ prev[1].grid = grid =>
          ret[1].e = prev[1].e /\ ret[1].V = prev[1].V

\* a call started after a call that returned a nonzero matrix
C7_Witness ==
    /\ pc = "outer" /\ l_block = 1
    /\ prev # <<>>
    /\ IsFinite(prev[1].e)
    /\ \E A, B \in 1 .. nbf : IsFinite(prev[1].V[A][B]) /\ ~(prev[1].V[A][B] = Fin(0))

\* C8: for every outer block the three sums are zero when the inner loop
\* starts, hold the contributions of the inner blocks added so far against
\* this outer block and of nothing else, and are read by the derivatives and
\* the energy sum only when every inner block has been added, each once.
C8_Accumulators ==
    /\ pc = "inner" =>
          /\ acc = Upto(r_block - 1)
          /\ phi_kernel = RefPhi(l_block, r_block - 1).k
          /\ phi_U = RefPhi(l_block, r_block - 1).U
          /\ phi_W = RefPhi(l_block, r_block - 1).W
    /\ pc = "inner" /\ acc = <<>> =>
          /\ phi_kernel = Zeros(npoints(grid[l_block]))
          /\ phi_U = Zeros(npoints(grid[l_block]))
          /\ phi_W = Zeros(npoints(grid[l_block]))
    /\ pc = "project" =>
          /\ readAcc = Upto(nblocks)
          /\ phi_kernel = RefPhi(l_block, nblocks).k
          /\ phi_U = RefPhi(l_block, nblocks).U
          /\ phi_W = RefPhi(l_block, nblocks).W

\* the sums of the second of two outer blocks have been read, finite, nonzero
C8_Witness ==
    /\ pc = "project"
    /\ l_block = 2 /\ nblocks = 2
    /\ readAcc = <<1, 2>>
    /\ \A i \in DOMAIN phi_kernel :
          /\ IsFinite(phi_kernel[i]) /\ ~(phi_kernel[i] = Fin(0))
          /\ IsFinite(phi_U[i]) /\ ~(phi_U[i] = Fin(0))
    /\ ~(RefPhi(1, nblocks).k = RefPhi(2, nblocks).k)

\* C9: the v_rho handed to the projector is, at every point,
\* 0.5 * (v_rho_semilocal + beta + phi_kernel + rho * (kappa_dn * phi_U +
\* w0_drho * phi_W)): halved once, after the addition; v_gamma is the
\* semilocal one plus rho * w0_dgamma * phi_W, not halved; the block's
\* energy is the one computed from phi_kernel.
C9_HalvedOnce ==
    pc = "project" =>
        LET rho == RefRho(l_block)
            gamma == RefGamma(l_block)
            k == RefKernel(l_block)
        IN  /\ \A i \in 1 .. npoints(grid[l_block]) :
                  LET kdn == FDiv(k.kappa[i], FMul(Num(6), rho[i]))
                      wdr == FMul(FDiv(Num(2), k.W0[i]),
                                  FSub(FDiv(np_pi, Num(3)),
                                       FDiv(FMul(coef_C, FSquare(gamma[i])), FPow5(rho[i]))))
                      wdg == FDiv(FMul(coef_C, gamma[i]), FMul(k.W0[i], FPow4(rho[i])))
                      semi_rho == SemiVRho(rho[i], gamma[i])
                      semi_gamma == SemiVGamma(rho[i], gamma[i])
                      added == FAdd(FAdd(FAdd(semi_rho, coef_beta), phi_kernel[i]),
                                    FMul(rho[i], FAdd(FMul(kdn, phi_U[i]), FMul(wdr, phi_W[i]))))
                  IN  /\ v_rho[i] = FMul(added, Fin(500))
                      /\ v_gamma[i] = FAdd(semi_gamma, FMul(FMul(rho[i], wdg), phi_W[i]))
            /\ vv10_e = RefNL(l_block)

\* the potentials of a block of positive density have been perturbed by
\* nonzero amounts
C9_Witness ==
    /\ pc = "project"
    /\ ValidDensity
    /\ \A i \in DOMAIN v_rho :
          /\ IsFinite(v_rho[i])
          /\ ~(v_rho[i] = FMul(SemiVRho(l_rho[i], l_gamma[i]), Fin(500)))
    /\ \E i \in DOMAIN v_gamma :
          IsFinite(v_gamma[i]) /\ ~(v_gamma[i] = SemiVGamma(l_rho[i], l_gamma[i]))

\* C10: while the inner loop retargets the evaluator, the rho, gamma, v_rho
\* and v_gamma of the outer block stay the values of block l, and the
\* projector reads the basis tables and the gradient of block l: after the
\* projection of block l the evaluator is computed for l, and Vtmp is the
\* projection of l's tables.
C10_OuterBlockData ==
    /\ pc \in {"inner", "project"} =>
          /\ l_rho = RefRho(l_block)
          /\ l_gamma = RefGamma(l_block)
    /\ pc = "inner" =>
          /\ target = IF acc = <<>> THEN l_block ELSE r_block - 1
          /\ \A i \in DOMAIN v_rho :
                /\ v_rho[i] = SemiVRho(RefRho(l_block)[i], RefGamma(l_block)[i])
                /\ v_gamma[i] = SemiVGamma(RefRho(l_block)[i], RefGamma(l_block)[i])
    /\ pc = "outer" /\ l_block > 1 =>
          LET l == l_block - 1
          IN  /\ target = l
              /\ Vtmp = Projector(l, grid_w(grid[l]), v_rho, v_gamma, npoints(grid[l]),
                                  Len(grid[l].lpos))

\* the first of two blocks has been projected, the evaluator having been
\* left on the second block by the inner loop, whose tables give another Vtmp
C10_Witness ==
    /\ pc = "outer"
    /\ l_block = 2 /\ nblocks = 2
    /\ target = 1
    /\ AllFinite(Varr)
    /\ Vtmp # Projector(2, grid_w(grid[1]), v_rho, v_gamma, npoints(grid[1]),
                        Len(grid[1].lpos))

====
